---- MODULE Spec2Model ----
(***************************************************************************)
(* The librbdfio benchmark of CBT (src/benchmark/librbdfio.py): the        *)
(* LibrbdFio object, its run() / run_workloads() coordination of remote    *)
(* fio dispatches, monitoring and the cluster's recovery test, and the     *)
(* command builder mkfiocmd().                                             *)
(*                                                                         *)
(* Python values are modelled as follows.  An optional value (None or a    *)
(* number) is a sequence of length 0 or 1.  A dict with string keys is a   *)
(* function on a set of strings; dict(a, **b) is b @@ a.  Python lists are *)
(* sequences; Python's zero-based loop counters are kept zero-based.  A    *)
(* command string is the sequence of the flags appended to it, each a pair *)
(* <<flag, value>>, in the order mkfiocmd appends them; the constant text  *)
(* of the command (engine, pool, output format, file names) is left out.   *)
(* A run directory is the record of the values formatted into its path.    *)
(***************************************************************************)
EXTENDS Integers, Sequences, FiniteSets, TLC

VARIABLES
    config,              \* the benchmark's YAML configuration (never changes)
    fs,                  \* directories that exist: subset of {"out_dir", "run_dir"}
    fs0,                 \* fs when the benchmark was invoked
    self,                \* the LibrbdFio object's mutable fields
    global_fio_options,  \* self.global_fio_options
    pc,                  \* position of the coordinating thread
    wk,                  \* run_workloads: index of the workload (1-based in the table)
    test,                \* run_workloads: the merged options of the workload
    enable_monitor,      \* run_workloads: local enable_monitor
    fioruntime,          \* run_workloads: local fioruntime
    i,                   \* position of "for i in range(self.volumes_per_client)"
    sweep,               \* position of "for i in range(len(test['iodepth']))"
    ps,                  \* list of dispatch handles (indexes into handles)
    pidx,                \* position of "for p in ps" (zero-based)
    nrun,                \* number of runs started so far
    handles,             \* every handle common.pdsh returned, in dispatch order
    cluster,             \* the cluster's recovery-test state
    mon,                 \* monitoring sessions active, oldest first
    runs,                \* the resolved parameters of every run, in order
    parser,              \* parse(): loop positions, the file being read, files written
    trace                \* every external call made, in order

vars == <<config, fs, fs0, self, global_fio_options, pc, wk, test, enable_monitor,
          fioruntime, i, sweep, ps, pidx, nrun, handles, cluster, mon, runs, trace,
          parser>>

----------------------------------------------------------------------------
(* Bounds of the model *)

MaxVolumes == 2
MaxWorkloads == 2
MaxSweep == 2

(* Defaults of the configuration, __init__ *)

DefaultIodepth == 16
DefaultNumjobs == 1
DefaultEndFsync == 0
DefaultRwmixread == 50
DefaultOpSize == 4194304
SettleSleep == 5

----------------------------------------------------------------------------
(* Python values *)

None == <<>>
Some(x) == <<x>>
Val(o) == o[1]

SeqsUpTo(S, n) == UNION {[1..k -> S] : k \in 0..n}

\* dict(a, **b): the keys of both, b's values winning
DictMerge(a, b) == b @@ a

----------------------------------------------------------------------------
(* Inputs: configurations and workload tables *)

GlobalKeys == {"time_based", "ramp", "iodepth", "numjobs", "mode", "end_fsync",
               "rwmixread", "rwmixwrite", "log_avg_msec", "op_size"}

\* config.get(key, default) for every key __init__ reads
DefaultConfig ==
    [ time |-> None, precond_time |-> None, time_based |-> FALSE, ramp |-> None,
      iodepth |-> DefaultIodepth, numjobs |-> DefaultNumjobs,
      end_fsync |-> DefaultEndFsync, mode |-> "write",
      rwmixread |-> DefaultRwmixread, log_avg_msec |-> None,
      op_size |-> DefaultOpSize, volumes_per_client |-> 1,
      recovery_test |-> FALSE, recov_test_type |-> "blocking",
      workloads |-> <<>> ]

RecoveryChoices ==
    { [recovery_test |-> r, recov_test_type |-> t] :
        r \in BOOLEAN, t \in {"blocking", "background"} }

IodepthValues == {4, 8}
NumjobsValues == {1, 2}

Sweep(iod, job) == [iodepth |-> iod, numjobs |-> job]

\* Every pair of arrays up to the bound, equal in length or not
Sweeps ==
    { Sweep(iod, job) : iod \in SeqsUpTo(IodepthValues, MaxSweep),
                        job \in SeqsUpTo(NumjobsValues, MaxSweep) }

FullSweep == Sweep(<<4, 8>>, <<1, 2>>)

\* One override of one key, or none, or the mixed-mode pair
Overrides ==
    { <<>> }
    \cup { [mode |-> m] : m \in {"randrw", "read"} }
    \cup { [op_size |-> 4096], [rwmixread |-> 70], [ramp |-> Some(3)],
           [end_fsync |-> 1], [log_avg_msec |-> Some(100)], [precond |-> TRUE] }
    \cup { [time_based |-> b] : b \in BOOLEAN }
    \cup { [monitor |-> b] : b \in BOOLEAN }
    \cup { [mode |-> "randrw", rwmixread |-> 70] }

TablesOver(W) == SeqsUpTo(W, MaxWorkloads)

\* Workloads for the coordination of runs: one or two runs, monitored or not
CoordWorkloads ==
    { s @@ o : s \in {Sweep(<<4>>, <<1>>), FullSweep},
               o \in {<<>>, [monitor |-> FALSE, mode |-> "randrw"]} }

\* Recovery: every recovery mode, with and without a ramp time, over the
\* top-level path and over one workload
RecoveryConfigs ==
    { [DefaultConfig EXCEPT !.recovery_test = r.recovery_test,
                            !.recov_test_type = r.recov_test_type,
                            !.volumes_per_client = v,
                            !.ramp = rp,
                            !.workloads = t] :
        r \in RecoveryChoices, v \in 1..MaxVolumes, rp \in {None, Some(2)},
        t \in {<<>>} \cup { <<w>> : w \in CoordWorkloads } }

\* Tables: every table of workloads up to the bound, without a recovery test
TableConfigs ==
    { [DefaultConfig EXCEPT !.volumes_per_client = v,
                            !.ramp = Some(2),
                            !.workloads = t] :
        v \in 1..MaxVolumes, t \in TablesOver(CoordWorkloads) }

\* Planning and command building: global options and one workload's overrides
PlanWorkloads == { FullSweep @@ o : o \in Overrides }

PlanConfigs ==
    { [DefaultConfig EXCEPT !.ramp = Some(2),
                            !.recovery_test = r,
                            !.time = tm,
                            !.precond_time = pt,
                            !.time_based = tb,
                            !.workloads = t] :
        r \in BOOLEAN, tm \in {None, Some(60)}, pt \in {None, Some(30)},
        tb \in BOOLEAN, t \in {<<>>} \cup { <<w>> : w \in PlanWorkloads } }

\* Sweeps: arrays of every shape, with and without the mixed-mode override,
\* over both global modes and two global read mixes
SweepWorkloads ==
    { s @@ o : s \in Sweeps, o \in {<<>>, [mode |-> "randrw", rwmixread |-> 70]} }

SweepConfigs ==
    { [DefaultConfig EXCEPT !.ramp = Some(2),
                            !.mode = m,
                            !.rwmixread = rw,
                            !.workloads = t] :
        m \in {"write", "readwrite"}, rw \in {DefaultRwmixread, 80},
        t \in {<<>>} \cup { <<w>> : w \in SweepWorkloads } }

Configs == RecoveryConfigs \cup TableConfigs \cup PlanConfigs \cup SweepConfigs

\* Failing commands: the recovery configurations with a ramp time, over the
\* top-level path and over the two runs of one workload on one volume
ExitConfigs ==
    { c \in RecoveryConfigs :
        /\ c.ramp = Some(2)
        /\ \/ c.workloads = <<>>
           \/ /\ c.workloads = <<FullSweep>>
              /\ c.volumes_per_client = 1 }

----------------------------------------------------------------------------
(* The LibrbdFio object *)

IdleMonitorSleep == 60

Ev(op, arg) == [op |-> op, run |-> nrun, arg |-> arg]

EvRun(op, r, arg) == [op |-> op, run |-> r, arg |-> arg]

\* self.run_dir as __init__ builds it
InitRunDir(c) ==
    [kind |-> "top", op_size |-> c.op_size,
     concurrent_procs |-> c.volumes_per_client,
     iodepth |-> c.iodepth, mode |-> c.mode]

\* self.run_dir as run_workloads builds it for one run
SweepRunDir(w, s) ==
    [kind |-> "sweep", wk |-> w, mode |-> s.mode, op_size |-> s.op_size,
     iodepth |-> s.iodepth, numjobs |-> s.numjobs]

backup_global_fio_options(s) ==
    [ time_based |-> s.time_based, ramp |-> s.ramp, iodepth |-> s.iodepth,
      numjobs |-> s.numjobs, mode |-> s.mode, end_fsync |-> s.end_fsync,
      rwmixread |-> s.rwmixread, rwmixwrite |-> s.rwmixwrite,
      log_avg_msec |-> s.log_avg_msec, op_size |-> s.op_size ]

\* restore_global_fio_options that forgets the mode
restore_without_mode(s, g) ==
    [s EXCEPT !.ramp = g.ramp, !.iodepth = g.iodepth, !.numjobs = g.numjobs,
              !.end_fsync = g.end_fsync,
              !.rwmixread = g.rwmixread, !.rwmixwrite = g.rwmixwrite,
              !.log_avg_msec = g.log_avg_msec, !.op_size = g.op_size,
              !.time_based = g.time_based]

restore_global_fio_options(s, g) ==
    [s EXCEPT !.ramp = g.ramp, !.iodepth = g.iodepth, !.numjobs = g.numjobs,
              !.mode = g.mode, !.end_fsync = g.end_fsync,
              !.rwmixread = g.rwmixread, !.rwmixwrite = g.rwmixwrite,
              !.log_avg_msec = g.log_avg_msec, !.op_size = g.op_size,
              !.time_based = g.time_based]

\* The fields __init__ sets from the configuration
Construct(c) ==
    [ time_based |-> c.time_based, ramp |-> c.ramp, iodepth |-> c.iodepth,
      numjobs |-> c.numjobs, end_fsync |-> c.end_fsync, mode |-> c.mode,
      rwmixread |-> c.rwmixread, rwmixwrite |-> 100 - c.rwmixread,
      log_avg_msec |-> c.log_avg_msec, op_size |-> c.op_size,
      run_dir |-> InitRunDir(c) ]

\* exists() looking at the run directory instead of the output directory
exists_checks_run_dir == "run_dir" \in fs

exists == "out_dir" \in fs

Opt(cond, tok) == IF cond THEN <<tok>> ELSE <<>>

\* ' --runtime=%d' % time raises TypeError when time is None
mkfiocmd_raises(time) == config.time # None /\ time = None

\* mkfiocmd without the recovery branch of lines 319-320
mkfiocmd_without_recovery_flag(volnum, time) ==
    <<  <<"--rbdname", volnum>>, <<"--rw", self.mode>>  >>
    \o Opt(self.mode = "readwrite" \/ self.mode = "randrw",
           <<"--rwmixread", self.rwmixread>>)
    \o Opt(self.mode = "readwrite" \/ self.mode = "randrw",
           <<"--rwmixwrite", self.rwmixwrite>>)
    \o (IF config.time # None THEN << <<"--runtime", Val(time)>> >> ELSE <<>>)
    \o Opt(self.time_based = TRUE, <<"--time_based", TRUE>>)
    \o (IF self.ramp # None THEN << <<"--ramp_time", Val(self.ramp)>> >> ELSE <<>>)
    \o <<  <<"--numjobs", self.numjobs>>, <<"--bs", self.op_size>>,
           <<"--iodepth", self.iodepth>>, <<"--end_fsync", self.end_fsync>>  >>
    \o (IF self.log_avg_msec # None
        THEN << <<"--log_avg_msec", Val(self.log_avg_msec)>> >> ELSE <<>>)
    \o <<  <<">", [run_dir |-> self.run_dir, volnum |-> volnum]>>  >>

\* mkfiocmd that emits the mix flags for 'randrw' only
mkfiocmd_mix_for_randrw_only(volnum, time) ==
    <<  <<"--rbdname", volnum>>, <<"--rw", self.mode>>  >>
    \o Opt(self.mode = "randrw", <<"--rwmixread", self.rwmixread>>)
    \o Opt(self.mode = "randrw", <<"--rwmixwrite", self.rwmixwrite>>)
    \o (IF config.time # None THEN << <<"--runtime", Val(time)>> >> ELSE <<>>)
    \o Opt(self.time_based = TRUE, <<"--time_based", TRUE>>)
    \o (IF self.ramp # None THEN << <<"--ramp_time", Val(self.ramp)>> >> ELSE <<>>)
    \o <<  <<"--numjobs", self.numjobs>>, <<"--bs", self.op_size>>,
           <<"--iodepth", self.iodepth>>, <<"--end_fsync", self.end_fsync>>  >>
    \o Opt(config.recovery_test, <<"--time_based", TRUE>>)
    \o (IF self.log_avg_msec # None
        THEN << <<"--log_avg_msec", Val(self.log_avg_msec)>> >> ELSE <<>>)
    \o <<  <<">", [run_dir |-> self.run_dir, volnum |-> volnum]>>  >>

mkfiocmd(volnum, time) ==
    <<  <<"--rbdname", volnum>>, <<"--rw", self.mode>>  >>
    \o Opt(self.mode = "readwrite" \/ self.mode = "randrw",
           <<"--rwmixread", self.rwmixread>>)
    \o Opt(self.mode = "readwrite" \/ self.mode = "randrw",
           <<"--rwmixwrite", self.rwmixwrite>>)
    \o (IF config.time # None THEN << <<"--runtime", Val(time)>> >> ELSE <<>>)
    \o Opt(self.time_based = TRUE, <<"--time_based", TRUE>>)
    \o (IF self.ramp # None THEN << <<"--ramp_time", Val(self.ramp)>> >> ELSE <<>>)
    \o <<  <<"--numjobs", self.numjobs>>, <<"--bs", self.op_size>>,
           <<"--iodepth", self.iodepth>>, <<"--end_fsync", self.end_fsync>>  >>
    \o Opt(config.recovery_test, <<"--time_based", TRUE>>)
    \o (IF self.log_avg_msec # None
        THEN << <<"--log_avg_msec", Val(self.log_avg_msec)>> >> ELSE <<>>)
    \o <<  <<">", [run_dir |-> self.run_dir, volnum |-> volnum]>>  >>

HasFlag(cmd, flag) == \E k \in DOMAIN cmd : cmd[k][1] = flag

FlagValue(cmd, flag) == cmd[CHOOSE k \in DOMAIN cmd : cmd[k][1] = flag][2]

----------------------------------------------------------------------------
(* Initial state: the object constructed from a configuration *)

\* no recovery test has been created: no callback registered (callback), the
\* callback not called (cb), no interrupt command sent (kill)
ClusterIdle ==
    [tests |-> 0, callback |-> "none", start_io |-> FALSE,
     recovery_done |-> FALSE, cb |-> "none", kill |-> "none"]

\* parse() has not been called
ParserIdle ==
    [pc |-> "idle", clients |-> <<>>, client |-> 0, vol |-> 0, raw |-> <<>>,
     line |-> 0, found |-> 0, json |-> <<>>, created |-> {}]

Init ==
    /\ config \in Configs
    /\ fs \in SUBSET {"out_dir", "run_dir"}
    /\ fs0 = fs
    /\ self = Construct(config)
    /\ global_fio_options =
         IF Len(config.workloads) > 0
         THEN backup_global_fio_options(Construct(config)) ELSE <<>>
    /\ pc = "idle"
    /\ wk = 0
    /\ test = <<>>
    /\ enable_monitor = TRUE
    /\ fioruntime = None
    /\ i = 0
    /\ sweep = 0
    /\ ps = <<>>
    /\ pidx = 0
    /\ nrun = 0
    /\ handles = <<>>
    /\ cluster = ClusterIdle
    /\ mon = <<>>
    /\ runs = <<>>
    /\ trace = <<>>
    /\ parser = ParserIdle

locals == <<wk, test, enable_monitor, fioruntime, i, sweep, ps, pidx>>

----------------------------------------------------------------------------
(* The caller: skip a benchmark whose results exist, else initialize and run *)

Invoke ==
    /\ pc = "idle"
    /\ pc' = IF exists THEN "skipped" ELSE "initialize"
    /\ UNCHANGED <<config, parser, fs, fs0, self, global_fio_options, locals, nrun,
                   handles, cluster, mon, runs, trace>>

\* initialize(): every monitoring session it starts it stops itself
initialize ==
    /\ pc = "initialize"
    /\ trace' = trace \o
         << Ev("clean_remote_dir", 0), Ev("make_remote_dir", 0),
            Ev("monitoring.start", 0), Ev("sleep", IdleMonitorSleep),
            Ev("monitoring.stop", 0), Ev("sync_files", self.run_dir) >>
         \o Opt(config.recovery_test /\ config.recov_test_type = "background",
                Ev("mkrecovimage", 0))
         \o << Ev("mkimages", 0) >>
    /\ fs' = fs \cup {"run_dir", "out_dir"}
    /\ pc' = "run"
    /\ UNCHANGED <<config, parser, fs0, self, global_fio_options, locals, nrun, handles,
                   cluster, mon, runs>>

----------------------------------------------------------------------------
(* run() *)

\* a run() that gives up when the autoscaler wait has timed out
abort_on_autoscaler_timeout(ret) == IF ret = 1 THEN "aborted" ELSE "recovery"

\* if ret == 1: logger.warn(...); run() then goes on in both cases
after_autoscaler(ret) == "recovery"

\* run(), up to the pg autoscaler check; ret is what the check returns
run_provision ==
    /\ pc = "run"
    /\ \E ret \in {0, 1} :
         /\ trace' = trace \o
              << Ev("dropcaches", 0), Ev("make_remote_dir", 0), Ev("dump_config", 0),
                 Ev("sleep", SettleSleep), Ev("check_pg_autoscaler", ret) >>
         /\ pc' = after_autoscaler(ret)
    /\ fs' = fs \cup {"run_dir"}
    /\ UNCHANGED <<config, parser, fs0, self, global_fio_options, locals, nrun, handles,
                   cluster, mon, runs>>

\* a run() that registers the blocking callback whatever the type
recovery_callback_always_blocking(type) == "blocking"

\* the callback run() passes to create_recovery_test, by recov_test_type
recovery_callback(type) ==
    IF type = "blocking" THEN "blocking" ELSE "background"

\* Start the recovery thread if requested
run_recovery ==
    /\ pc = "recovery"
    /\ IF config.recovery_test
       THEN /\ cluster' = [cluster EXCEPT
                           !.tests = @ + 1,
                           !.callback = recovery_callback(config.recov_test_type)]
            /\ trace' = Append(trace, Ev("create_recovery_test", 0))
       ELSE UNCHANGED <<cluster, trace>>
    /\ pc' = IF config.recovery_test /\ config.recov_test_type = "background"
             THEN "wait_start_io" ELSE "select"
    /\ UNCHANGED <<config, parser, fs, fs0, self, global_fio_options, locals, nrun,
                   handles, mon, runs>>

\* wait_start_io() that does not block
wait_start_io_nonblocking == TRUE

\* cluster.wait_start_io() returns once the recovery thread has signalled
wait_start_io_returns == cluster.start_io

wait_start_io ==
    /\ pc = "wait_start_io"
    /\ wait_start_io_returns
    /\ trace' = Append(trace, Ev("wait_start_io", 0))
    /\ pc' = "select"
    /\ UNCHANGED <<config, parser, fs, fs0, self, global_fio_options, locals, nrun,
                   handles, cluster, mon, runs>>

\* The parameters of the run that is about to be dispatched
RunSpec(s, w, runtime, monitor) ==
    [wk |-> w, iodepth |-> s.iodepth, numjobs |-> s.numjobs,
     mode |-> s.mode, op_size |-> s.op_size,
     rwmixread |-> s.rwmixread, rwmixwrite |-> s.rwmixwrite,
     run_dir |-> s.run_dir, runtime |-> runtime, monitor |-> monitor]

\* if len(self.workloads) > 0: run_workloads(), else the original style, which
\* starts monitoring before it dispatches
run_select ==
    /\ pc = "select"
    /\ IF Len(config.workloads) > 0
       THEN /\ pc' = "workloads"
            /\ wk' = 0
            /\ UNCHANGED <<nrun, mon, runs, trace, ps, i>>
       ELSE /\ pc' = "top_dispatch"
            /\ nrun' = nrun + 1
            /\ mon' = Append(mon, self.run_dir)
            /\ trace' = Append(trace, EvRun("monitoring.start", nrun + 1, 0))
            /\ runs' = Append(runs, RunSpec(self, 0, config.time, TRUE))
            /\ ps' = <<>>
            /\ i' = 0
            /\ UNCHANGED wk
    /\ UNCHANGED <<config, parser, fs, fs0, self, global_fio_options, test, enable_monitor,
                   fioruntime, sweep, pidx, handles, cluster>>

\* One pass of "for i in range(self.volumes_per_client)": build the command,
\* dispatch it, keep the handle
Dispatch(time) ==
    /\ handles' = Append(handles,
                    [run |-> nrun, vol |-> i, cmd |-> mkfiocmd(i, time),
                     state |-> "running", rc |-> None, waits |-> 0])
    /\ ps' = Append(ps, Len(handles) + 1)
    /\ trace' = Append(trace, Ev("pdsh", i))
    /\ i' = i + 1

\* p.wait() that does not block
wait_nonblocking(p) == TRUE

\* p.wait() returns once the remote command has completed
wait_returns(p) == handles[p].state = "done"

\* One pass of "for p in ps: p.wait()"
Wait ==
    /\ pidx < Len(ps)
    /\ wait_returns(ps[pidx + 1])
    /\ handles' = [handles EXCEPT ![ps[pidx + 1]].waits = @ + 1]
    /\ trace' = Append(trace, Ev("wait", ps[pidx + 1]))
    /\ pidx' = pidx + 1

\* A dispatch loop that stops after the first volume
dispatch_loop_one_volume == i >= 1

dispatch_loop_done == i >= config.volumes_per_client

\* mkfiocmd(i, self.time) cannot raise here: its runtime is self.time itself
top_dispatch ==
    /\ pc = "top_dispatch"
    /\ IF dispatch_loop_done
       THEN /\ pc' = "top_wait"
            /\ pidx' = 0
            /\ UNCHANGED <<handles, ps, trace, i>>
       ELSE /\ Dispatch(config.time)
            /\ UNCHANGED <<pc, pidx>>
    /\ UNCHANGED <<config, parser, fs, fs0, self, global_fio_options, wk, test,
                   enable_monitor, fioruntime, sweep, nrun, cluster, mon, runs>>

top_wait ==
    /\ pc = "top_wait"
    /\ IF pidx >= Len(ps)
       THEN /\ pc' = "recovery_done"
            /\ UNCHANGED <<handles, trace, pidx>>
       ELSE /\ Wait
            /\ UNCHANGED pc
    /\ UNCHANGED <<config, parser, fs, fs0, self, global_fio_options, wk, test,
                   enable_monitor, fioruntime, i, sweep, ps, nrun, cluster, mon,
                   runs>>

----------------------------------------------------------------------------
(* run_workloads() *)

\* for wk in self.workloads: the per-workload set-up, or the return
workloads_next ==
    /\ pc = "workloads"
    /\ IF wk < Len(config.workloads)
       THEN LET t == DictMerge(global_fio_options, config.workloads[wk + 1]) IN
            /\ wk' = wk + 1
            /\ ps' = <<>>
            /\ test' = t
            /\ enable_monitor' = IF "monitor" \in DOMAIN t THEN t.monitor ELSE TRUE
            /\ fioruntime' = IF "precond" \in DOMAIN t
                             THEN config.precond_time ELSE config.time
            /\ sweep' = 0
            /\ pc' = "sweep"
       ELSE /\ pc' = "recovery_done"
            /\ UNCHANGED <<wk, ps, test, enable_monitor, fioruntime, sweep>>
    /\ UNCHANGED <<config, parser, fs, fs0, self, global_fio_options, i, pidx, nrun,
                   handles, cluster, mon, runs, trace>>

\* The overlay without the recomputation of rwmixwrite
Overlay_stale_rwmixwrite(s, t, w, iod, job) ==
    LET a == [s EXCEPT !.mode = t.mode]
        b == IF "op_size" \in DOMAIN t THEN [a EXCEPT !.op_size = t.op_size] ELSE a
        c == IF "rwmixread" \in DOMAIN t
             THEN [b EXCEPT !.rwmixread = t.rwmixread]
             ELSE b
        d == [c EXCEPT !.numjobs = job, !.iodepth = iod]
    IN  [d EXCEPT !.run_dir = SweepRunDir(w, d)]

\* The overlay taking numjobs from the head of the array at every index
Overlay_first_numjobs(s, t, w, iod, job) ==
    LET a == [s EXCEPT !.mode = t.mode]
        b == IF "op_size" \in DOMAIN t THEN [a EXCEPT !.op_size = t.op_size] ELSE a
        c == IF "rwmixread" \in DOMAIN t
             THEN [b EXCEPT !.rwmixread = t.rwmixread,
                            !.rwmixwrite = 100 - t.rwmixread]
             ELSE b
        d == [c EXCEPT !.numjobs = t.numjobs[1], !.iodepth = iod]
    IN  [d EXCEPT !.run_dir = SweepRunDir(w, d)]

\* The body of the sweep loop up to the run directory: the workload's options
\* and the index's iodepth/numjobs written into the object
Overlay(s, t, w, iod, job) ==
    LET a == [s EXCEPT !.mode = t.mode]
        b == IF "op_size" \in DOMAIN t THEN [a EXCEPT !.op_size = t.op_size] ELSE a
        c == IF "rwmixread" \in DOMAIN t
             THEN [b EXCEPT !.rwmixread = t.rwmixread,
                            !.rwmixwrite = 100 - t.rwmixread]
             ELSE b
        d == [c EXCEPT !.numjobs = job, !.iodepth = iod]
    IN  [d EXCEPT !.run_dir = SweepRunDir(w, d)]

\* for i in range(len(test['iodepth'])): one run's set-up, or the loop's end;
\* test['numjobs'][i] raises IndexError past the end of numjobs
sweep_next ==
    /\ pc = "sweep"
    /\ IF sweep >= Len(test.iodepth)
       THEN /\ pc' = "workloads"
            /\ UNCHANGED <<self, sweep, i, nrun, runs, trace, fs>>
       ELSE IF sweep >= Len(test.numjobs)
       THEN /\ pc' = "IndexError"
            /\ UNCHANGED <<self, sweep, i, nrun, runs, trace, fs>>
       ELSE /\ self' = Overlay(self, test, wk, test.iodepth[sweep + 1],
                               test.numjobs[sweep + 1])
            /\ sweep' = sweep + 1
            /\ nrun' = nrun + 1
            /\ runs' = Append(runs, RunSpec(self', wk, fioruntime, enable_monitor))
            /\ trace' = Append(trace, EvRun("make_remote_dir", nrun + 1, 0))
            /\ fs' = fs \cup {"run_dir"}
            /\ i' = 0
            /\ pc' = "dispatch"
    /\ UNCHANGED <<config, parser, fs0, global_fio_options, wk, test, enable_monitor,
                   fioruntime, ps, pidx, handles, cluster, mon>>

dispatch ==
    /\ pc = "dispatch"
    /\ IF dispatch_loop_done
       THEN /\ pc' = "ramp"
            /\ UNCHANGED <<handles, ps, trace, i>>
       ELSE IF mkfiocmd_raises(fioruntime)
       THEN /\ pc' = "TypeError"
            /\ UNCHANGED <<handles, ps, trace, i>>
       ELSE /\ Dispatch(fioruntime)
            /\ UNCHANGED pc
    /\ UNCHANGED <<config, parser, fs, fs0, self, global_fio_options, wk, test,
                   enable_monitor, fioruntime, sweep, pidx, nrun, cluster, mon,
                   runs>>

\* monitoring started before the ramp sleep
monitoring_before_ramp ==
    << Ev("monitoring.start", 0), Ev("sleep", Val(self.ramp)) >>

\* time.sleep(self.ramp); monitoring.start(self.run_dir)
ramp_calls ==
    << Ev("sleep", Val(self.ramp)), Ev("monitoring.start", 0) >>

\* if enable_monitor: sleep the ramp time, then start monitoring;
\* time.sleep(None) raises TypeError
ramp ==
    /\ pc = "ramp"
    /\ IF ~enable_monitor
       THEN /\ pc' = "wait"
            /\ UNCHANGED <<mon, trace>>
       ELSE IF self.ramp = None
       THEN /\ pc' = "TypeError"
            /\ UNCHANGED <<mon, trace>>
       ELSE /\ trace' = trace \o ramp_calls
            /\ mon' = Append(mon, self.run_dir)
            /\ pc' = "wait"
    /\ pidx' = 0
    /\ UNCHANGED <<config, parser, fs, fs0, self, global_fio_options, wk, test,
                   enable_monitor, fioruntime, i, sweep, ps, nrun, handles,
                   cluster, runs>>

wait ==
    /\ pc = "wait"
    /\ IF pidx >= Len(ps)
       THEN /\ pc' = "sweep_end"
            /\ UNCHANGED <<handles, trace, pidx>>
       ELSE /\ Wait
            /\ UNCHANGED pc
    /\ UNCHANGED <<config, parser, fs, fs0, self, global_fio_options, wk, test,
                   enable_monitor, fioruntime, i, sweep, ps, nrun, cluster, mon,
                   runs>>

\* monitoring.stop(directory): the sessions of that directory end; the event
\* records how many sessions were active when stop was called
MonStop(dir) == SelectSeq(mon, LAMBDA d : d # dir)

sweep_end ==
    /\ pc = "sweep_end"
    /\ IF enable_monitor
       THEN /\ mon' = MonStop(self.run_dir)
            /\ trace' = Append(trace, Ev("monitoring.stop", Len(mon)))
       ELSE UNCHANGED <<mon, trace>>
    /\ self' = restore_global_fio_options(self, global_fio_options)
    /\ pc' = "sweep"
    /\ UNCHANGED <<config, parser, fs, fs0, global_fio_options, locals, nrun, handles,
                   cluster, runs>>

----------------------------------------------------------------------------
(* run(), after the dispatches *)

\* the run the closing calls of run() belong to: the single run of the original
\* style; after run_workloads() they belong to no run of the sweep
CollectRun == IF Len(config.workloads) > 0 THEN 0 ELSE nrun

\* wait_recovery_done() that does not block
wait_recovery_done_nonblocking == TRUE

\* cluster.wait_recovery_done() returns once the recovery test has finished
wait_recovery_done_returns == cluster.recovery_done

run_recovery_done ==
    /\ pc = "recovery_done"
    /\ IF config.recovery_test
       THEN /\ wait_recovery_done_returns
            /\ trace' = Append(trace, EvRun("wait_recovery_done", CollectRun, 0))
       ELSE UNCHANGED trace
    /\ pc' = "collect"
    /\ UNCHANGED <<config, parser, fs, fs0, self, global_fio_options, locals, nrun,
                   handles, cluster, mon, runs>>

\* monitoring.stop, dump_historic_ops, sync_files, analyze; the file work of
\* analyze() is the subject of SpecParse, here it is the call only
run_collect ==
    /\ pc = "collect"
    /\ mon' = MonStop(self.run_dir)
    /\ trace' = trace \o
         << EvRun("monitoring.stop", CollectRun, Len(mon)),
            EvRun("dump_historic_ops", CollectRun, 0),
            EvRun("sync_files", CollectRun, self.run_dir),
            EvRun("analyze", CollectRun, 0) >>
    /\ fs' = fs \cup {"out_dir"}
    /\ pc' = "done"
    /\ UNCHANGED <<config, parser, fs0, self, global_fio_options, locals, nrun, handles,
                   cluster, runs>>

----------------------------------------------------------------------------
(* The environment: remote commands and the cluster's recovery thread *)

\* The exit statuses a remote command may end with.  Non-zero exits are
\* explored for the configurations of ExitConfigs.
ExitStatuses == IF config \in ExitConfigs THEN {0, 1} ELSE {0}

\* A dispatched remote command completes, with some exit status
complete ==
    \E h \in DOMAIN handles, rc \in ExitStatuses :
        /\ handles[h].state = "running"
        /\ handles' = [handles EXCEPT ![h].state = "done", ![h].rc = Some(rc)]
        /\ UNCHANGED <<config, parser, fs, fs0, self, global_fio_options, pc, locals,
                       nrun, cluster, mon, runs, trace>>

\* The background recovery thread signals that client I/O may start
cluster_start_io ==
    /\ cluster.tests > 0
    /\ cluster.callback = "background"
    /\ ~cluster.start_io
    /\ cluster' = [cluster EXCEPT !.start_io = TRUE]
    /\ UNCHANGED <<config, parser, fs, fs0, self, global_fio_options, pc, locals, nrun,
                   handles, mon, runs, trace>>

\* The recovery thread calls the registered blocking callback:
\* common.pdsh(clients, 'sudo killall -2 fio') sends the interrupt command
recovery_callback_blocking ==
    /\ cluster.tests > 0
    /\ cluster.callback = "blocking"
    /\ cluster.cb = "none"
    /\ ~cluster.recovery_done
    /\ cluster' = [cluster EXCEPT !.cb = "called", !.kill = "running"]
    /\ UNCHANGED <<config, parser, fs, fs0, self, global_fio_options, pc, locals,
                   nrun, handles, mon, runs, trace>>

\* The interrupt command completes on the clients
kill_complete ==
    /\ cluster.kill = "running"
    /\ cluster' = [cluster EXCEPT !.kill = "done"]
    /\ UNCHANGED <<config, parser, fs, fs0, self, global_fio_options, pc, locals,
                   nrun, handles, mon, runs, trace>>

\* a callback that does not wait for the interrupt command
communicate_nonblocking == TRUE

\* .communicate() returns once the interrupt command has completed
communicate_returns == cluster.kill = "done"

\* The blocking callback returns to the recovery thread
recovery_callback_blocking_return ==
    /\ cluster.cb = "called"
    /\ communicate_returns
    /\ cluster' = [cluster EXCEPT !.cb = "returned"]
    /\ UNCHANGED <<config, parser, fs, fs0, self, global_fio_options, pc, locals,
                   nrun, handles, mon, runs, trace>>

\* The recovery thread calls the registered background callback, which logs
\* and returns
recovery_callback_background ==
    /\ cluster.tests > 0
    /\ cluster.callback = "background"
    /\ cluster.cb = "none"
    /\ ~cluster.recovery_done
    /\ cluster' = [cluster EXCEPT !.cb = "returned"]
    /\ UNCHANGED <<config, parser, fs, fs0, self, global_fio_options, pc, locals,
                   nrun, handles, mon, runs, trace>>

\* The recovery test finishes; its thread is not inside the callback then
cluster_recovery_done ==
    /\ cluster.tests > 0
    /\ cluster.cb # "called"
    /\ ~cluster.recovery_done
    /\ cluster' = [cluster EXCEPT !.recovery_done = TRUE]
    /\ UNCHANGED <<config, parser, fs, fs0, self, global_fio_options, pc, locals, nrun,
                   handles, mon, runs, trace>>

Next ==
    \/ Invoke
    \/ initialize
    \/ run_provision
    \/ run_recovery
    \/ wait_start_io
    \/ run_select
    \/ top_dispatch
    \/ top_wait
    \/ workloads_next
    \/ sweep_next
    \/ dispatch
    \/ ramp
    \/ wait
    \/ sweep_end
    \/ run_recovery_done
    \/ run_collect
    \/ complete
    \/ cluster_start_io
    \/ recovery_callback_blocking
    \/ kill_complete
    \/ recovery_callback_blocking_return
    \/ recovery_callback_background
    \/ cluster_recovery_done

Spec == Init /\ [][Next]_vars

\* The steps of the coordinating thread: the caller, initialize() and run()
Coordinator ==
    \/ Invoke
    \/ initialize
    \/ run_provision
    \/ run_recovery
    \/ wait_start_io
    \/ run_select
    \/ top_dispatch
    \/ top_wait
    \/ workloads_next
    \/ sweep_next
    \/ dispatch
    \/ ramp
    \/ wait
    \/ sweep_end
    \/ run_recovery_done
    \/ run_collect

\* The coordinating thread keeps running; every dispatched remote command
\* eventually completes; the cluster eventually signals start-I/O and
\* recovery-done, its callback returning in between
Fairness ==
    /\ WF_vars(Coordinator)
    /\ WF_vars(complete)
    /\ WF_vars(kill_complete)
    /\ WF_vars(recovery_callback_blocking_return)
    /\ WF_vars(cluster_start_io)
    /\ WF_vars(cluster_recovery_done)

SpecLive == Init /\ [][Next]_vars /\ Fairness

----------------------------------------------------------------------------
(* analyze() and parse(): filtering the JSON payload out of each output file *)

MaxLines == 5

\* A line of an output file is its sequence of words; " " is white space.
Lines == { <<" ">>, <<"Starting">>, <<"{">>, <<"{", "Starting">> }

RawOutputs == UNION { [1..n -> Lines] : n \in 0..MaxLines }

\* settings.getnodes('clients').split(',')
ClientLists == { <<"client1">>, <<"client1", "client2">> }

\* len(line.strip()) == 0
IsBlank(line) == \A k \in DOMAIN line : line[k] = " "

\* "Starting" in line
HasMarker(line) == \E k \in DOMAIN line : line[k] = "Starting"

\* a JSON file that comes to exist only with its first write
open_json_on_first_write(created, f) == created

\* open(json_out_file, 'w') creates the file, empty
open_json(created, f) == created \cup {f}

\* analyze() calls parse(out_dir); the client list is read from the settings
analyze ==
    /\ pc = "analyze"
    /\ \E cl \in ClientLists :
         parser' = [ParserIdle EXCEPT !.pc = "loop", !.clients = cl, !.client = 1]
    /\ pc' = "parse"
    /\ UNCHANGED <<config, fs, fs0, self, global_fio_options, locals, nrun,
                   handles, cluster, mon, runs, trace>>

\* the two for statements: the next volume index of the client, else the next
\* client, else return; the body opens both files and reads the lines
parse_loop ==
    /\ pc = "parse"
    /\ parser.pc = "loop"
    /\ IF parser.vol < config.volumes_per_client
       THEN /\ \E raw \in RawOutputs :
                 parser' = [parser EXCEPT
                     !.found = 0, !.raw = raw, !.line = 0, !.json = <<>>,
                     !.created = open_json(@, <<parser.client, parser.vol>>),
                     !.pc = "lines"]
            /\ pc' = pc
       ELSE IF parser.client < Len(parser.clients)
       THEN /\ parser' = [parser EXCEPT !.client = @ + 1, !.vol = 0]
            /\ pc' = pc
       ELSE /\ parser' = [parser EXCEPT !.pc = "returned"]
            /\ pc' = "done"
    /\ UNCHANGED <<config, fs, fs0, self, global_fio_options, locals, nrun,
                   handles, cluster, mon, runs, trace>>

\* one iteration of "for line in fd.readlines()"
parse_line ==
    /\ pc = "parse"
    /\ parser.pc = "lines"
    /\ IF parser.line >= Len(parser.raw)
       THEN parser' = [parser EXCEPT !.pc = "closed"]
       ELSE LET line == parser.raw[parser.line + 1]
            IN  IF IsBlank(line)
                THEN parser' = [parser EXCEPT !.found = 0, !.pc = "closed"]
                ELSE parser' = [parser EXCEPT
                         !.json = IF parser.found = 1 THEN Append(@, line) ELSE @,
                         !.found = IF parser.found = 0 /\ HasMarker(line)
                                   THEN 1 ELSE @,
                         !.line = @ + 1]
    /\ UNCHANGED <<config, fs, fs0, self, global_fio_options, pc, locals, nrun,
                   handles, cluster, mon, runs, trace>>

\* both with-blocks end: the files are closed and the lines read are dropped;
\* on to the next volume index
parse_close ==
    /\ pc = "parse"
    /\ parser.pc = "closed"
    /\ parser' = [parser EXCEPT !.vol = @ + 1, !.pc = "loop", !.raw = <<>>,
                                !.line = 0, !.json = <<>>]
    /\ UNCHANGED <<config, fs, fs0, self, global_fio_options, pc, locals, nrun,
                   handles, cluster, mon, runs, trace>>

\* analyze(out_dir) is called on a benchmark whose output files are in place
ParseConfigs ==
    { [DefaultConfig EXCEPT !.volumes_per_client = v] : v \in 1..MaxVolumes }

ParseInit ==
    /\ config \in ParseConfigs
    /\ fs = {"out_dir", "run_dir"}
    /\ fs0 = {}
    /\ self = Construct(config)
    /\ global_fio_options = <<>>
    /\ pc = "analyze"
    /\ parser = ParserIdle
    /\ wk = 0
    /\ test = <<>>
    /\ enable_monitor = TRUE
    /\ fioruntime = None
    /\ i = 0
    /\ sweep = 0
    /\ ps = <<>>
    /\ pidx = 0
    /\ nrun = 0
    /\ handles = <<>>
    /\ cluster = ClusterIdle
    /\ mon = <<>>
    /\ runs = <<>>
    /\ trace = <<>>

ParseNext ==
    \/ analyze
    \/ parse_loop
    \/ parse_line
    \/ parse_close

SpecParse == ParseInit /\ [][ParseNext]_vars


----------------------------------------------------------------------------
(* Properties *)

Background == config.recovery_test /\ config.recov_test_type = "background"

Swept == Len(config.workloads) > 0

\* run_workloads() has returned
Returned == Swept /\ pc \in {"recovery_done", "collect", "done"}

\* The dispatches of run r issued before position k of the trace
PdshBefore(k, r) ==
    { j \in 1..(k - 1) : trace[j].op = "pdsh" /\ trace[j].run = r }

IsPdsh(k) == trace[k].op = "pdsh"

\* monitoring.start called for a run (run 0 is initialize's idle monitoring)
IsRunMonStart(k) == trace[k].op = "monitoring.start" /\ trace[k].run > 0

\* C1: in background recovery mode no client dispatch is issued before
\* cluster.wait_start_io() has returned, and wait_start_io() returns only once
\* the cluster has signalled: without the signal the dispatches stay at zero.
C1_NoDispatchBeforeStartIO ==
    Background =>
        \A k \in DOMAIN trace :
            IsPdsh(k) =>
                /\ cluster.start_io
                /\ \E j \in 1..(k - 1) : trace[j].op = "wait_start_io"

C1_Witness ==
    /\ Background
    /\ \E k \in DOMAIN trace : IsPdsh(k)

\* C2 as stated: on both paths monitoring.start for a run is called only after
\* all of that run's dispatches, one per volume index, have been issued.
C2_MonitoringAfterDispatches ==
    \A k \in DOMAIN trace :
        IsRunMonStart(k) =>
            Cardinality(PdshBefore(k, trace[k].run)) = config.volumes_per_client

\* C2 amended: on the swept-workload path monitoring.start for a run is called
\* only after all of that run's dispatches have been issued; on the top-level
\* path without workloads it is called before any of the run's dispatches.
C2_MonitoringStartOrder ==
    \A k \in DOMAIN trace :
        IsRunMonStart(k) =>
            IF Swept
            THEN Cardinality(PdshBefore(k, trace[k].run)) = config.volumes_per_client
            ELSE \A j \in DOMAIN trace : IsPdsh(j) => k < j

C2_Witness ==
    /\ Swept
    /\ config.volumes_per_client >= 2
    /\ \E k \in DOMAIN trace : IsRunMonStart(k)

\* C3: every wait() on a handle comes after all volumes_per_client dispatches
\* of that handle's run, on both paths.
C3_FanOutBeforeFanIn ==
    \A k \in DOMAIN trace :
        trace[k].op = "wait" =>
            Cardinality(PdshBefore(k, handles[trace[k].arg].run))
                = config.volumes_per_client

C3_Witness ==
    /\ config.volumes_per_client >= 2
    /\ \E k \in DOMAIN trace : trace[k].op = "wait"

\* C4: at every state the dispatches still in flight belong to at most one run.
InFlightRuns == { handles[h].run : h \in {x \in DOMAIN handles : handles[x].state = "running"} }

C4_RunsNeverOverlap == Cardinality(InFlightRuns) <= 1

C4_Witness ==
    /\ Swept
    /\ \E h \in DOMAIN handles : handles[h].run >= 2 /\ handles[h].state = "running"

\* C5: if the output directory exists when the benchmark is invoked, the
\* coordinator only goes from idle to skipped, dispatches nothing and touches
\* no remote resource; it is skipped for no other reason.
C5_ExistingOutputSkips ==
    /\ "out_dir" \in fs0 => pc \in {"idle", "skipped"} /\ trace = <<>> /\ handles = <<>>
    /\ pc = "skipped" => "out_dir" \in fs0

C5_Witness == pc = "skipped" /\ "out_dir" \in fs0 /\ "run_dir" \notin fs0

\* C6 as stated: a workload whose iodepth and numjobs arrays differ in length
\* makes the invocation fail before any dispatch has been issued.
Mismatched ==
    \E w \in DOMAIN config.workloads :
        Len(config.workloads[w].iodepth) # Len(config.workloads[w].numjobs)

C6_MismatchFailsBeforeDispatch ==
    Mismatched =>
        /\ \A k \in DOMAIN trace : ~IsPdsh(k)
        /\ pc # "done"

\* C7: rwmixread + rwmixwrite = 100 in the object at every state, in the
\* snapshot of the global options, in every run's parameters and in every
\* command that carries the two flags.
C7_MixSumsTo100 ==
    /\ self.rwmixread + self.rwmixwrite = 100
    /\ Swept => global_fio_options.rwmixread + global_fio_options.rwmixwrite = 100
    /\ \A r \in DOMAIN runs : runs[r].rwmixread + runs[r].rwmixwrite = 100
    /\ \A h \in DOMAIN handles :
         HasFlag(handles[h].cmd, "--rwmixread") =>
            FlagValue(handles[h].cmd, "--rwmixread")
              + FlagValue(handles[h].cmd, "--rwmixwrite") = 100

C7_Witness ==
    \E h \in DOMAIN handles :
        /\ HasFlag(handles[h].cmd, "--rwmixread")
        /\ FlagValue(handles[h].cmd, "--rwmixread") = 70
        /\ config.rwmixread # 70

\* C8: run_workloads executes exactly one run per index of each workload's
\* arrays, in workload declaration order and in array index order, pairing
\* iodepth[i] with numjobs[i]; the runs started so far are always a prefix of
\* that plan, and the whole plan once run_workloads has returned, every run
\* with its volumes_per_client dispatches.  The mixed-mode scenario yields
\* (4, 1, 70, 30) then (8, 2, 70, 30).
RunTuple(r) == <<r.wk, r.iodepth, r.numjobs, r.rwmixread, r.rwmixwrite>>

PlannedReadMix(c, w) ==
    IF "rwmixread" \in DOMAIN c.workloads[w]
    THEN c.workloads[w].rwmixread ELSE c.rwmixread

PlannedWorkload(c, w) ==
    [ k \in 1..Len(c.workloads[w].iodepth) |->
        << w, c.workloads[w].iodepth[k], c.workloads[w].numjobs[k],
           PlannedReadMix(c, w), 100 - PlannedReadMix(c, w) >> ]

RECURSIVE PlannedRuns(_, _)
PlannedRuns(c, n) ==
    IF n = 0 THEN <<>> ELSE PlannedRuns(c, n - 1) \o PlannedWorkload(c, n)

IsPrefix(a, b) == Len(a) <= Len(b) /\ \A k \in DOMAIN a : a[k] = b[k]

ActualRuns == [k \in DOMAIN runs |-> RunTuple(runs[k])]

MixedModeScenario ==
    /\ config.workloads = <<[mode |-> "randrw", rwmixread |-> 70,
                             iodepth |-> <<4, 8>>, numjobs |-> <<1, 2>>]>>
    /\ config.rwmixread = 50

C8_RunsInPlanOrder ==
    /\ (Swept /\ ~Mismatched) =>
         /\ IsPrefix(ActualRuns, PlannedRuns(config, Len(config.workloads)))
         /\ Returned =>
              /\ ActualRuns = PlannedRuns(config, Len(config.workloads))
              /\ \A r \in DOMAIN runs :
                   Cardinality({k \in DOMAIN trace : IsPdsh(k) /\ trace[k].run = r})
                     = config.volumes_per_client
    /\ (MixedModeScenario /\ Returned) =>
         ActualRuns = << <<1, 4, 1, 70, 30>>, <<1, 8, 2, 70, 30>> >>

C8_Witness == MixedModeScenario /\ Returned /\ Len(runs) = 2

\* C9: at the start of every iteration of run_workloads (of the workload loop
\* and of the sweep loop) and after it has returned, every global option of
\* the object equals the value snapshotted at configuration load.
AtIterationStart == Swept /\ pc \in {"workloads", "sweep"}

C9_GlobalsRestored ==
    (AtIterationStart \/ Returned) =>
        /\ global_fio_options = backup_global_fio_options(Construct(config))
        /\ \A key \in GlobalKeys : self[key] = global_fio_options[key]

C9_Witness ==
    /\ pc = "sweep"
    /\ sweep >= 1
    /\ test.mode # config.mode
    /\ test.rwmixread # config.rwmixread

\* C10 as stated: every global key a workload overrides reaches the commands of
\* its runs (and the ramp sleep) with the override value, every other key with
\* the global value, and iodepth/numjobs with the index's pair.
Effective(w, key) ==
    IF key \in DOMAIN config.workloads[w]
    THEN config.workloads[w][key] ELSE Construct(config)[key]

OptFlagIs(cmd, flag, o) ==
    IF o = None THEN ~HasFlag(cmd, flag)
    ELSE HasFlag(cmd, flag) /\ FlagValue(cmd, flag) = Val(o)

C10_OverridesReachCommand ==
    /\ \A h \in DOMAIN handles :
         LET w == runs[handles[h].run].wk
             r == runs[handles[h].run]
             cmd == handles[h].cmd
         IN  w > 0 =>
               /\ FlagValue(cmd, "--rw") = Effective(w, "mode")
               /\ FlagValue(cmd, "--bs") = Effective(w, "op_size")
               /\ HasFlag(cmd, "--rwmixread") =>
                    FlagValue(cmd, "--rwmixread") = Effective(w, "rwmixread")
               /\ FlagValue(cmd, "--end_fsync") = Effective(w, "end_fsync")
               /\ OptFlagIs(cmd, "--ramp_time", Effective(w, "ramp"))
               /\ OptFlagIs(cmd, "--log_avg_msec", Effective(w, "log_avg_msec"))
               /\ ~config.recovery_test =>
                    (HasFlag(cmd, "--time_based") <=> Effective(w, "time_based"))
               /\ FlagValue(cmd, "--iodepth") = r.iodepth
               /\ FlagValue(cmd, "--numjobs") = r.numjobs
    /\ \A k \in DOMAIN trace :
         (trace[k].op = "sleep" /\ trace[k].run > 0) =>
             trace[k].arg = Val(Effective(runs[trace[k].run].wk, "ramp"))

----------------------------------------------------------------------------
(* C11: with a recovery test configured every command built by mkfiocmd
   carries the time-based flag, whatever the object's time_based is; with no
   recovery test the flag is present exactly when time_based is true.  The
   object's time_based is the configured one for the whole invocation. *)

C11_TimeBasedFlag ==
    /\ self.time_based = config.time_based
    /\ \A h \in DOMAIN handles :
         LET cmd == handles[h].cmd
         IN  /\ config.recovery_test => HasFlag(cmd, "--time_based")
             /\ ~config.recovery_test =>
                  (HasFlag(cmd, "--time_based") <=> self.time_based = TRUE)

\* a command of a recovery run whose own time_based is false carries the flag
C11_Witness ==
    /\ config.recovery_test
    /\ self.time_based = FALSE
    /\ \E h \in DOMAIN handles : HasFlag(handles[h].cmd, "--time_based")

----------------------------------------------------------------------------
(* C12: a command carries the rwmixread and rwmixwrite flags exactly when
   the mode of its run is 'readwrite' or 'randrw'; for every other mode both
   flags are absent. *)

MixedMode(m) == m = "readwrite" \/ m = "randrw"

C12_MixFlagsIffMixedMode ==
    \A h \in DOMAIN handles :
        LET cmd == handles[h].cmd
            m == FlagValue(cmd, "--rw")
        IN  /\ m = runs[handles[h].run].mode
            /\ HasFlag(cmd, "--rwmixread") <=> MixedMode(m)
            /\ HasFlag(cmd, "--rwmixwrite") <=> MixedMode(m)

\* a command of a 'readwrite' run has been built, with both mix flags
C12_Witness ==
    \E h \in DOMAIN handles :
        /\ FlagValue(handles[h].cmd, "--rw") = "readwrite"
        /\ HasFlag(handles[h].cmd, "--rwmixread")
        /\ HasFlag(handles[h].cmd, "--rwmixwrite")

----------------------------------------------------------------------------
(* C13: for every raw output, preambles with blank lines before the marker
   included, parse writes exactly the lines strictly after the first line
   that contains the start marker, up to but excluding the first blank line
   after that marker or the end of the input: the marker line is not copied
   and a second marker block is never captured. *)

Markers(raw) == { k \in DOMAIN raw : HasMarker(raw[k]) }

FirstMarker(raw) == CHOOSE m \in Markers(raw) : \A k \in Markers(raw) : m <= k

BlanksAfter(raw, m) == { k \in DOMAIN raw : k > m /\ IsBlank(raw[k]) }

PayloadEnd(raw, m) ==
    IF BlanksAfter(raw, m) = {} THEN Len(raw) + 1
    ELSE CHOOSE e \in BlanksAfter(raw, m) : \A k \in BlanksAfter(raw, m) : e <= k

PayloadAfterFirstMarker(raw) ==
    IF Markers(raw) = {} THEN <<>>
    ELSE SubSeq(raw, FirstMarker(raw) + 1, PayloadEnd(raw, FirstMarker(raw)) - 1)

C13_ParseCopiesFirstBlock ==
    parser.pc = "closed" => parser.json = PayloadAfterFirstMarker(parser.raw)

----------------------------------------------------------------------------
(* C14: when no line of an output file contains the marker, parse still
   creates the payload file of that client and volume index, leaves it
   empty, raises nothing and goes on to the remaining volume indexes and
   clients; when parse returns, the payload file of every client and volume
   index exists. *)

CurrentFile == <<parser.client, parser.vol>>

AllFiles ==
    { <<c, v>> : c \in DOMAIN parser.clients, v \in 0..(config.volumes_per_client - 1) }

C14_NoMarkerEmptyPayload ==
    /\ [](/\ (parser.pc \in {"lines", "closed"} /\ Markers(parser.raw) = {}) =>
                /\ CurrentFile \in parser.created
                /\ parser.json = <<>>
          /\ parser.pc = "loop" =>
                parser.created = { f \in AllFiles :
                    \/ f[1] < parser.client
                    \/ f[1] = parser.client /\ f[2] < parser.vol }
          /\ parser.pc = "returned" => (parser.created = AllFiles /\ pc = "done"))
    /\ [][parser.pc = "closed" =>
            /\ parser'.pc = "loop"
            /\ parser'.client = parser.client
            /\ parser'.vol = parser.vol + 1]_vars

\* a file with lines but no marker has been read to its end, and it is not
\* the last file of the invocation
C14_Witness ==
    /\ parser.pc = "closed"
    /\ Markers(parser.raw) = {}
    /\ parser.line = Len(parser.raw)
    /\ Len(parser.raw) > 1
    /\ CurrentFile \in parser.created
    /\ AllFiles \ parser.created # {}

----------------------------------------------------------------------------
(* C15: with a recovery test configured run() does not reach Done before
   cluster.wait_recovery_done() has returned, and it calls
   wait_recovery_done() only after every dispatch handle of the invocation
   has been waited on; with no recovery test wait_recovery_done() is never
   called. *)

Called(op) == \E k \in DOMAIN trace : trace[k].op = op

C15_RecoveryDoneBeforeDone ==
    /\ (config.recovery_test /\ pc = "done") =>
          /\ Called("wait_recovery_done")
          /\ cluster.recovery_done
    /\ Called("wait_recovery_done") =>
          /\ config.recovery_test
          /\ cluster.recovery_done
          /\ pc \in {"collect", "done"}
    /\ pc \in {"recovery_done", "collect", "done"} =>
          \A h \in DOMAIN handles : handles[h].waits >= 1
    /\ \A k \in DOMAIN trace :
          trace[k].op = "wait_recovery_done" =>
             /\ \A j \in DOMAIN trace : trace[j].op \in {"pdsh", "wait"} => j < k
             /\ \A h \in DOMAIN handles :
                   \E j \in 1..(k - 1) : trace[j].op = "wait" /\ trace[j].arg = h

\* a recovery run with dispatches has reached Done
C15_Witness ==
    /\ config.recovery_test
    /\ pc = "done"
    /\ Len(handles) >= 2
    /\ Called("wait_recovery_done")

----------------------------------------------------------------------------
(* C16: a pg-autoscaler wait that times out (check_pg_autoscaler returns 1)
   never aborts the run: for both outcomes run() goes on to the same next
   step, the arming of the recovery test, and the call that follows the
   check is the same one. *)

AutoscalerRet(k) == trace[k].op = "check_pg_autoscaler"

CallAfterAutoscaler ==
    IF config.recovery_test THEN "create_recovery_test"
    ELSE IF ~Swept THEN "monitoring.start"
    ELSE IF nrun > 0 THEN "make_remote_dir"
    ELSE "monitoring.stop"

C16_AutoscalerTimeoutGoesOn ==
    /\ [](/\ pc # "aborted"
          /\ \A k \in DOMAIN trace :
                AutoscalerRet(k) =>
                   /\ trace[k].arg \in {0, 1}
                   /\ pc # "run"
                   /\ k < Len(trace) => trace[k + 1].op = CallAfterAutoscaler)
    /\ [][pc = "run" =>
            /\ pc' = "recovery"
            /\ trace'[Len(trace')].op = "check_pg_autoscaler"]_vars

\* a run whose autoscaler wait timed out has dispatched and reached Done
C16_Witness ==
    /\ pc = "done"
    /\ Len(handles) >= 1
    /\ \E k \in DOMAIN trace : AutoscalerRet(k) /\ trace[k].arg = 1

----------------------------------------------------------------------------
(* C17: every dispatch handle is waited on exactly once over the whole
   invocation: never more than once, and never zero times once the
   dispatching part of run() has returned, handles created by an earlier
   (iodepth, numjobs) iteration of the same workload included. *)

C17_EachHandleWaitedOnce ==
    \A h \in DOMAIN handles :
        /\ handles[h].waits <= 1
        /\ pc \in {"recovery_done", "collect", "done"} => handles[h].waits = 1

----------------------------------------------------------------------------
(* C18: in a swept run with monitoring enabled the order is: all dispatches
   of the run, the ramp sleep of the configured ramp duration,
   monitoring.start(run_dir), the waits, monitoring.stop(run_dir); in a
   swept run whose workload disables monitoring neither the ramp sleep nor
   monitoring.start nor the per-run monitoring.stop occurs. *)

SweptRuns == { r \in DOMAIN runs : runs[r].wk > 0 }

HandlesOf(r) == { h \in DOMAIN handles : handles[h].run = r }

RunEnded(r) == r < nrun \/ (r = nrun /\ pc \in {"sweep", "workloads"}) \/ Returned

\* the calls of run r, in order
CallsOf(r) == SelectSeq(trace, LAMBDA e : e.run = r)

Phase(op) ==
    CASE op = "make_remote_dir" -> 1
      [] op = "pdsh" -> 2
      [] op = "sleep" -> 3
      [] op = "monitoring.start" -> 4
      [] op = "wait" -> 5
      [] op = "monitoring.stop" -> 6

MonitoredRunOrder(r) ==
    LET calls == CallsOf(r)
        At(op) == { k \in DOMAIN calls : calls[k].op = op }
    IN  /\ \A k \in 1..(Len(calls) - 1) :
              Phase(calls[k].op) <= Phase(calls[k + 1].op)
        /\ Cardinality(At("sleep")) <= 1
        /\ Cardinality(At("monitoring.start")) <= 1
        /\ Cardinality(At("monitoring.stop")) <= 1
        /\ \A s \in At("sleep") :
              /\ Cardinality(At("pdsh")) = config.volumes_per_client
              /\ Some(calls[s].arg) = config.ramp
              /\ \A h \in HandlesOf(r) :
                    OptFlagIs(handles[h].cmd, "--ramp_time", Some(calls[s].arg))
        /\ At("monitoring.start") # {} => At("sleep") # {}
        /\ At("wait") # {} => At("monitoring.start") # {}
        /\ At("monitoring.stop") # {} =>
              HandlesOf(r) \subseteq { calls[w].arg : w \in At("wait") }
        /\ RunEnded(r) => At("monitoring.stop") # {}

UnmonitoredRun(r) ==
    LET calls == CallsOf(r)
    IN  \A k \in DOMAIN calls :
            /\ calls[k].op \in {"make_remote_dir", "pdsh", "wait"}
            /\ k < Len(calls) => Phase(calls[k].op) <= Phase(calls[k + 1].op)

\* the session open between monitoring.start and monitoring.stop is that of
\* the current run's directory; no other session is open during the sweep
SweptSessions ==
    IF pc \in {"wait", "sweep_end"} /\ enable_monitor
    THEN <<runs[nrun].run_dir>> ELSE <<>>

C18_SweptRunMonitoringOrder ==
    /\ \A r \in SweptRuns :
          IF runs[r].monitor THEN MonitoredRunOrder(r) ELSE UnmonitoredRun(r)
    /\ (Swept /\ pc # "done") => mon = SweptSessions

\* a monitored swept run over two volumes has ended, after an unmonitored one
C18_Witness ==
    /\ config.volumes_per_client = 2
    /\ \E r \in SweptRuns :
          /\ runs[r].monitor
          /\ RunEnded(r)
          /\ [k \in 1..7 |-> CallsOf(r)[k].op] =
                <<"make_remote_dir", "pdsh", "pdsh", "sleep", "monitoring.start",
                  "wait", "wait">>
          /\ CallsOf(r)[Len(CallsOf(r))].op = "monitoring.stop"
    /\ \E r \in SweptRuns : ~runs[r].monitor /\ RunEnded(r)

----------------------------------------------------------------------------
(* C19 as stated: the blocking recovery callback sends the interrupt to all
   clients and returns at once, without waiting for the interrupt command to
   complete: once called, it can return whatever the state of that command. *)

C19_CallbackFireAndForget ==
    cluster.cb = "called" => ENABLED recovery_callback_blocking_return

(* C19, amended: the blocking recovery callback sends the interrupt command
   to all clients and returns only when that command has completed; its
   return waits for nothing else, in particular not for the dispatch
   handles of the run. *)

C19_CallbackWaitsForInterrupt ==
    /\ cluster.cb = "called" =>
          /\ cluster.callback = "blocking"
          /\ cluster.kill \in {"running", "done"}
          /\ (ENABLED recovery_callback_blocking_return) <=> cluster.kill = "done"
    /\ (cluster.cb = "returned" /\ cluster.callback = "blocking") =>
          cluster.kill = "done"
    /\ cluster.kill # "none" => cluster.callback = "blocking"

\* the blocking callback has returned while a client command is still running
C19_Witness ==
    /\ cluster.callback = "blocking"
    /\ cluster.cb = "returned"
    /\ cluster.kill = "done"
    /\ \E h \in DOMAIN handles : handles[h].state = "running"

----------------------------------------------------------------------------
(* C20: with a recovery test configured run() calls
   cluster.create_recovery_test exactly once, before any client dispatch,
   with the blocking callback when recov_test_type is 'blocking' and the
   background callback when it is 'background'; with no recovery test it
   never calls it; cluster.wait_start_io() is called exactly when the
   recovery mode is background. *)

\* positions in the trace of the calls of op made in run r (0: by run() itself)
Calls(op, r) == { k \in DOMAIN trace : trace[k].op = op /\ trace[k].run = r }

NotYetArmed == pc \in {"idle", "skipped", "initialize", "run", "recovery"}

C20_RecoveryTestCreatedOnce ==
    /\ cluster.tests = Cardinality(Calls("create_recovery_test", 0))
    /\ cluster.tests <= 1
    /\ ~config.recovery_test => (cluster.tests = 0 /\ cluster.callback = "none")
    /\ (config.recovery_test /\ ~NotYetArmed) =>
          /\ cluster.tests = 1
          /\ cluster.callback = config.recov_test_type
    /\ NotYetArmed => (cluster.tests = 0 /\ handles = <<>>)
    /\ \A k \in DOMAIN trace :
          (trace[k].op = "pdsh" /\ config.recovery_test) =>
              \E j \in 1..(k - 1) : trace[j].op = "create_recovery_test"
    /\ (pc = "wait_start_io" \/ Called("wait_start_io")) => Background
    /\ (Background /\ ~NotYetArmed /\ pc # "wait_start_io") => Called("wait_start_io")
    /\ Cardinality(Calls("wait_start_io", 0)) <= 1

\* a background recovery run has registered its callback, waited for the
\* start signal and dispatched
C20_Witness ==
    /\ Background
    /\ cluster.tests = 1
    /\ cluster.callback = "background"
    /\ Called("wait_start_io")
    /\ Len(handles) >= 1

----------------------------------------------------------------------------
(* C21: every command dispatched for a run of a workload that marks itself
   as a precondition run carries precond_time as its runtime; the commands
   of every other workload carry the general runtime, time. *)

IsPrecond(w) == "precond" \in DOMAIN config.workloads[w]

C21_PrecondRuntime ==
    \A h \in DOMAIN handles :
        LET w == runs[handles[h].run].wk
            cmd == handles[h].cmd
        IN  w > 0 =>
              IF IsPrecond(w)
              THEN OptFlagIs(cmd, "--runtime", config.precond_time)
              ELSE OptFlagIs(cmd, "--runtime", config.time)

----------------------------------------------------------------------------
(* C22: mkfiocmd(volnum, time) emits the runtime flag exactly when the
   runtime supplied for the run is configured (not None), for every
   combination of configured and unconfigured time and precond_time, and
   builds a command in each of them; the time-based flag does not depend on
   a runtime being configured. *)

\* the runtime run_workloads or run() supplies to mkfiocmd at this point
SuppliedRuntime == IF Swept THEN fioruntime ELSE config.time

C22_RuntimeFlagIffSupplied ==
    /\ \A h \in DOMAIN handles :
          LET cmd == handles[h].cmd
              supplied == runs[handles[h].run].runtime
          IN  /\ OptFlagIs(cmd, "--runtime", supplied)
              /\ HasFlag(cmd, "--time_based") <=>
                    (self.time_based = TRUE \/ config.recovery_test)
    /\ pc = "TypeError" => ~mkfiocmd_raises(SuppliedRuntime)

----------------------------------------------------------------------------
(* C23: no two runs of one invocation use the same run directory, workload
   tables whose arrays repeat an (iodepth, numjobs) pair included. *)

C23_RunDirsDistinct ==
    \A r1, r2 \in DOMAIN runs :
        r1 # r2 => runs[r1].run_dir # runs[r2].run_dir

----------------------------------------------------------------------------
(* C25: the monitoring.start and monitoring.stop calls of run() and
   run_workloads are balanced: monitoring.stop is called only while a
   session the coordinator started is active, and when run() is done every
   session started has been stopped, once. *)

MonCalls ==
    SelectSeq(trace, LAMBDA e : e.op \in {"monitoring.start", "monitoring.stop"})

\* sessions active after the first k monitoring calls
ActiveAfter(k) ==
    Cardinality({ j \in 1..k : MonCalls[j].op = "monitoring.start" })
    - Cardinality({ j \in 1..k : MonCalls[j].op = "monitoring.stop" })

C25_MonitoringBalanced ==
    /\ \A k \in DOMAIN MonCalls :
          MonCalls[k].op = "monitoring.stop" => ActiveAfter(k - 1) >= 1
    /\ pc = "done" => (ActiveAfter(Len(MonCalls)) = 0 /\ mon = <<>>)

----------------------------------------------------------------------------
(* C26: when run() reaches Done with a non-empty workload table, the run
   directory of every swept run executed has been synced to the output
   directory before the results are extracted, not only that of the last
   run. *)

SyncedBeforeAnalyze(dir) ==
    \E k \in DOMAIN trace :
        /\ trace[k].op = "sync_files"
        /\ trace[k].arg = dir
        /\ \E a \in DOMAIN trace : a > k /\ trace[a].op = "analyze"

C26_EverySweptRunSynced ==
    (pc = "done" /\ Swept) =>
        \A r \in DOMAIN runs : SyncedBeforeAnalyze(runs[r].run_dir)

----------------------------------------------------------------------------
(* C24: under fairness, with every dispatched command eventually completing
   (with any exit status) and the cluster eventually signalling start-I/O
   and recovery-done, run() eventually reaches Done: once run() has begun,
   it is done or some step of Next is still to come, so it never stops
   short of Done; a non-zero exit of a command changes no later step of the
   coordinator (a wait on a completed handle returns whatever its exit
   status); and no (run, volume index) is dispatched more than once. *)

\* the handle the coordinator is waiting on, if any
Waiting == pc \in {"top_wait", "wait"} /\ pidx < Len(ps)

ExitStatusIgnored ==
    Waiting =>
        ((ENABLED (top_wait \/ wait)) <=> handles[ps[pidx + 1]].state = "done")

NoRedispatch ==
    \A h1, h2 \in DOMAIN handles :
        (handles[h1].run = handles[h2].run /\ handles[h1].vol = handles[h2].vol)
            => h1 = h2

RunBegun == pc \notin {"idle", "skipped", "initialize"}

C24_RunReachesDone ==
    /\ ExitStatusIgnored
    /\ NoRedispatch
    /\ RunBegun => (pc = "done" \/ ENABLED Next)

\* run() ends: in Done, or in the exception it raised
RunEnds == (pc = "run") ~> (pc \in {"done", "TypeError", "IndexError"})

====
